---- MODULE Spec2Model ----
(* The ClickHouse service resource of the Terraform provider                *)
(* (clickhouse/service.go): Create, Read, Update and Delete of one managed  *)
(* service, the remote control plane they talk to, and the caller's         *)
(* persisted Terraform state.                                               *)
EXTENDS Integers, Sequences, FiniteSets, TLC

(* ------------------------------------------------------------------------ *)
(* Bounds of the model                                                      *)
(* ------------------------------------------------------------------------ *)

\* longest ip_access list a configuration holds
MaxIpAccess == 2

\* number of lifecycle operations (Create, Read, Update, Delete) of one run
MaxOps == 3

\* number of GetService polls of one Create that may see "provisioning"
MaxPolls == 2

(* ------------------------------------------------------------------------ *)
(* Values                                                                   *)
(* ------------------------------------------------------------------------ *)

\* a nil pointer / absent object
Nil == [nil |-> TRUE]

\* types.String: a known value, or unknown (a computed attribute the
\* configuration does not set)
Known(v) == [known |-> TRUE, value |-> v]

Unknown == [known |-> FALSE, value |-> ""]

\* types.String.ValueString(): the value, "" when null or unknown
ValueString(t) == IF t.known THEN t.value ELSE ""

\* types.String.String(): a human-readable rendering, the value in quotes
StringOf(t) == IF t.known THEN "\"" \o t.value \o "\"" ELSE "<unknown>"

IpAccess(source, description) == [Source |-> source, Description |-> description]

\* the ip_access entries configurations are built from; the second and the
\* third differ in both fields
IpAccessEntries ==
    { IpAccess("0.0.0.0", "Test IP"),
      IpAccess("fd00", "1:lab"),
      IpAccess("fd00:1", "lab") }

Range(seq) == { seq[i] : i \in 1..Len(seq) }

RECURSIVE SeqsUpTo(_)
SeqsUpTo(n) ==
    IF n = 0 THEN { <<>> }
    ELSE LET shorter == SeqsUpTo(n - 1)
         IN  shorter \cup { Append(q, e) : q \in { r \in shorter : Len(r) = n - 1 },
                                           e \in IpAccessEntries }

\* ip_access lists: no entry twice, at most MaxIpAccess entries, any order
IpAccessLists == { q \in SeqsUpTo(MaxIpAccess) : Cardinality(Range(q)) = Len(q) }

Names == { "svc1", "svc2" }

PlanPasswords == { Unknown, Known("pw1") }

CloudProviders == { "aws", "gcp" }

Regions == { "us-east-1", "eu-west-1" }

Tiers == { "production", "development" }

MinTotalMemoryGbs == { 24, 48 }

MaxTotalMemoryGbs == { 360, 720 }

IdleTimeouts == { 5, 10 }

\* the configuration of examples/basic/main.tf, password left to the server
ReferencePlan ==
    [ Name               |-> "svc1",
      Password           |-> Unknown,
      CloudProvider      |-> "aws",
      Region             |-> "us-east-1",
      Tier               |-> "production",
      IdleScaling        |-> TRUE,
      IpAccessList       |-> << IpAccess("0.0.0.0", "Test IP") >>,
      MinTotalMemoryGb   |-> 24,
      MaxTotalMemoryGb   |-> 360,
      IdleTimeoutMinutes |-> 5 ]

AllPlans ==
    [ Name               : Names,
      Password           : PlanPasswords,
      CloudProvider      : CloudProviders,
      Region             : Regions,
      Tier               : Tiers,
      IdleScaling        : BOOLEAN,
      IpAccessList       : IpAccessLists,
      MinTotalMemoryGb   : MinTotalMemoryGbs,
      MaxTotalMemoryGb   : MaxTotalMemoryGbs,
      IdleTimeoutMinutes : IdleTimeouts ]

\* the planned configurations (serviceResourceModel as read from req.Plan):
\* the reference configuration and every change of one attribute of it, with
\* or without a password of the user's, so that plan and prior state differ
\* in any one or two attributes, and in the password or not
Plans ==
    { p \in AllPlans :
        \E f \in DOMAIN p :
            \A g \in DOMAIN p \ {f, "Password"} : p[g] = ReferencePlan[g] }

\* what the control plane generates and reports
GeneratedPassword == "generated"

ServiceId == "svc-id-1"

RemoteEndpoints ==
    << [Protocol |-> "https", Host |-> "svc.clickhouse.cloud", Port |-> 8443],
       [Protocol |-> "nativesecure", Host |-> "svc.clickhouse.cloud", Port |-> 9440] >>

(* ------------------------------------------------------------------------ *)
(* State                                                                    *)
(* ------------------------------------------------------------------------ *)

VARIABLES
    tfstate,        \* the caller's persisted state (resp.State), Nil when none
    remote,         \* the service held by the control plane, Nil when none
    remotePassword, \* the credential the control plane holds for the service
    pc,             \* position of the operation in progress, "done" when it
                    \* ended, "idle" when none
    op,             \* the operation in progress or last run
    plan,           \* req.Plan of the operation
    state,          \* req.State of the operation (prior state)
    s,              \* the local s: the last state payload received
    password,       \* the local password
    calls,          \* the remote calls the operation issued, in order
    diags,          \* resp.Diagnostics of the operation: the errors added
    outcome,        \* of the operation: "running", "ok" (state written),
                    \* "error" (diagnostics) or "panic" (run-time fault)
    ops,            \* number of operations started
    rerun           \* history: the Update in progress repeats, with the
                    \* same plan and the persisted state, an Update that
                    \* failed after a call of it had succeeded

vars == << tfstate, remote, remotePassword, pc, op, plan, state, s, password,
           calls, diags, outcome, ops, rerun >>

\* one remote call: its request, whether it succeeded, and the response
\* (Nil when it failed)
Call(name, req, ok, res) ==
    [call |-> name, req |-> req, ok |-> ok, res |-> IF ok THEN res ELSE Nil]

\* types.ListValue / an unknown (computed, not yet set) list
ListValue(elems) == [known |-> TRUE, elems |-> elems]

UnknownList == [known |-> FALSE, elems |-> << >>]

(* ------------------------------------------------------------------------ *)
(* The control plane behind Client                                          *)
(* ------------------------------------------------------------------------ *)

\* Client.CreateService: the new service starts out provisioning
CreateService(service) ==
    [ service EXCEPT !.Id = ServiceId,
                     !.State = "provisioning",
                     !.Endpoints = RemoteEndpoints ]

\* Client.UpdateService: an empty name and a nil access-list update are absent
\* fields; removals are applied before additions
UpdateService(svc, req) ==
    LET named == IF req.Name = "" THEN svc ELSE [svc EXCEPT !.Name = req.Name]
        kept  == SelectSeq(svc.IpAccessList,
                           LAMBDA e : e \notin Range(req.IpAccessList.Remove))
        added == SelectSeq(req.IpAccessList.Add, LAMBDA e : e \notin Range(kept))
    IN  IF req.IpAccessList = Nil THEN named
        ELSE [named EXCEPT !.IpAccessList = kept \o added]

\* Client.UpdateServiceScaling: a zero number is an absent field; the
\* idle-scaling pointer is always set by Update
UpdateServiceScaling(svc, req) ==
    [ svc EXCEPT
        !.IdleScaling = req.IdleScaling,
        !.MinTotalMemoryGb = IF req.MinTotalMemoryGb = 0 THEN @ ELSE req.MinTotalMemoryGb,
        !.MaxTotalMemoryGb = IF req.MaxTotalMemoryGb = 0 THEN @ ELSE req.MaxTotalMemoryGb,
        !.IdleTimeoutMinutes =
            IF req.IdleTimeoutMinutes = 0 THEN @ ELSE req.IdleTimeoutMinutes ]

\* ServicePasswordUpdateFromPlainPassword: the request for a plain password;
\* an empty one asks the server to generate
ServicePasswordUpdateFromPlainPassword(pw) == [Plain |-> pw]

\* Client.UpdateServicePassword: the credential the service holds afterwards
NewRemotePassword(req) == IF req.Plain = "" THEN GeneratedPassword ELSE req.Plain

\* Client.UpdateServicePassword: the response carries a password only when
\* the server generated one
PasswordResponse(req) ==
    [Password |-> IF req.Plain = "" THEN GeneratedPassword ELSE ""]

(* ------------------------------------------------------------------------ *)
(* Create                                                                   *)
(* ------------------------------------------------------------------------ *)

\* Create: the API request body generated from the plan
ServiceFromPlan(p) ==
    [ Id                 |-> "",
      Name               |-> p.Name,
      Provider           |-> p.CloudProvider,
      Region             |-> p.Region,
      Tier               |-> p.Tier,
      IdleScaling        |-> p.IdleScaling,
      IpAccessList       |-> p.IpAccessList,
      MinTotalMemoryGb   |-> p.MinTotalMemoryGb,
      MaxTotalMemoryGb   |-> p.MaxTotalMemoryGb,
      IdleTimeoutMinutes |-> p.IdleTimeoutMinutes,
      State              |-> "",
      Endpoints          |-> << >> ]

\* for ipAccessIndex, ipAccess := range s.IpAccessList
\*     { plan.IpAccessList[ipAccessIndex] = ... }
\* faults when s holds more entries than the plan's slice
WriteBackFaults(planList, sList) == Len(sList) > Len(planList)

WriteBack(planList, sList) ==
    [ i \in 1..Len(planList) |-> IF i <= Len(sList) THEN sList[i] ELSE planList[i] ]

\* the computed and refreshed attributes mapped from a state payload
ModelFromService(p, svc, pw, endpoints) ==
    [ ID                 |-> svc.Id,
      Name               |-> svc.Name,
      Password           |-> Known(pw),
      Endpoints          |-> endpoints,
      CloudProvider      |-> svc.Provider,
      Region             |-> svc.Region,
      Tier               |-> svc.Tier,
      IdleScaling        |-> svc.IdleScaling,
      IpAccessList       |-> WriteBack(p.IpAccessList, svc.IpAccessList),
      MinTotalMemoryGb   |-> svc.MinTotalMemoryGb,
      MaxTotalMemoryGb   |-> svc.MaxTotalMemoryGb,
      IdleTimeoutMinutes |-> svc.IdleTimeoutMinutes ]

\* Create: the endpoints written to the state are those of the request body
\* `service`, which the plan never fills
CreateEndpoints(p, svc) == ListValue(ServiceFromPlan(p).Endpoints)

\* Create, up to the CreateService call
CreateStart(p, ok) ==
    /\ pc = "idle"
    /\ UNCHANGED rerun
    /\ ops < MaxOps
    /\ ops' = ops + 1
    /\ tfstate = Nil
    /\ op' = "Create"
    /\ plan' = p
    /\ state' = Nil
    /\ calls' = << Call("CreateService", ServiceFromPlan(p), ok,
                       CreateService(ServiceFromPlan(p))) >>
    /\ IF ok
       THEN /\ remote' = CreateService(ServiceFromPlan(p))
            /\ remotePassword' = GeneratedPassword
            /\ s' = CreateService(ServiceFromPlan(p))
            /\ password' = GeneratedPassword
            /\ diags' = << >>
            /\ outcome' = "running"
            /\ pc' = "create_poll"
       ELSE /\ diags' = << "Error creating service" >>
            /\ outcome' = "error"
            /\ pc' = "done"
            /\ s' = Nil
            /\ password' = ""
            /\ UNCHANGED << remote, remotePassword >>
    /\ UNCHANGED tfstate

\* a variant that polls again after a failed poll
AfterCreateCallPollAgain(ok, next) == next

\* Create: where control goes after a remote call: on an error the
\* diagnostic is added and Create returns
AfterCreateCall(ok, next) == IF ok THEN next ELSE "done"

PollsSeen == Cardinality({ i \in 1..Len(calls) : calls[i].call = "GetService" })

\* a variant that leaves the loop after the first response
PollDoneAtOnce(svc) == TRUE

\* the loop's exit test: if s.State != "provisioning" { break }
PollDone(svc) == svc.State # "provisioning"

\* Create: one iteration of the poll loop
CreatePoll(ok) ==
    /\ pc = "create_poll"
    /\ UNCHANGED rerun
    /\ remote # Nil
    /\ PollsSeen < MaxPolls \/ remote.State # "provisioning"
    /\ calls' = Append(calls, Call("GetService", s.Id, ok, remote))
    /\ IF ok
       THEN /\ s' = remote
            /\ pc' = IF PollDone(remote) THEN "create_password" ELSE "create_poll"
            /\ UNCHANGED << diags, outcome >>
       ELSE /\ diags' = << "Error retrieving service state" >>
            /\ outcome' = "error"
            /\ pc' = AfterCreateCall(ok, "create_poll")
            /\ UNCHANGED s
    /\ UNCHANGED << tfstate, remote, remotePassword, op, plan, state, password, ops >>

\* a variant that assigns the local password only when the plan has one
CreatePasswordLocalKeepGenerated(p, generated) ==
    IF Len(ValueString(p.Password)) > 0 THEN generated ELSE ValueString(p.Password)

\* Create: password = plan.Password.ValueString() assigns the local
\* password in the if statement's initialiser, whatever its length
CreatePasswordLocal(p, generated) == ValueString(p.Password)

\* Create, after the poll loop: the password follow-up, the mapping of the
\* response and resp.State.Set
CreateFinish(ok) ==
    /\ pc = "create_password"
    /\ UNCHANGED rerun
    /\ LET pw     == CreatePasswordLocal(plan, password)
           pwCall == Len(pw) > 0
           req    == ServicePasswordUpdateFromPlainPassword(pw)
       IN  /\ password' = pw
           /\ pwCall \/ ok
           /\ calls' = IF pwCall
                       THEN Append(calls, Call("UpdateServicePassword", req, ok,
                                               PasswordResponse(req)))
                       ELSE calls
           /\ remotePassword' = IF pwCall /\ ok THEN NewRemotePassword(req)
                                ELSE remotePassword
           /\ IF ~ok
              THEN /\ diags' = << "Error setting service password" >>
                   /\ outcome' = "error"
                   /\ UNCHANGED tfstate
              ELSE IF WriteBackFaults(plan.IpAccessList, s.IpAccessList)
              THEN /\ outcome' = "panic"
                   /\ UNCHANGED << tfstate, diags >>
              ELSE /\ tfstate' = ModelFromService(plan, s, pw, CreateEndpoints(plan, s))
                   /\ outcome' = "ok"
                   /\ UNCHANGED diags
    /\ pc' = "done"
    /\ UNCHANGED << remote, op, plan, state, s, ops >>

\* the control plane finishes provisioning the service
RemoteProvisioned ==
    /\ remote # Nil
    /\ remote.State = "provisioning"
    /\ remote' = [remote EXCEPT !.State = "running"]
    /\ UNCHANGED << tfstate, remotePassword, pc, op, plan, state, s, password,
                    calls, diags, outcome, ops, rerun >>

(* ------------------------------------------------------------------------ *)
(* Read and Delete                                                          *)
(* ------------------------------------------------------------------------ *)

\* Read: the items overwritten with the refreshed service
RefreshedModel(st, service) ==
    [ st EXCEPT !.IpAccessList = service.IpAccessList,
                !.Endpoints = ListValue(service.Endpoints) ]

Read(ok) ==
    /\ pc = "idle"
    /\ UNCHANGED rerun
    /\ ops < MaxOps
    /\ ops' = ops + 1
    /\ tfstate # Nil
    /\ remote # Nil
    /\ op' = "Read"
    /\ plan' = Nil
    /\ state' = tfstate
    /\ password' = ""
    /\ calls' = << Call("GetService", tfstate.ID, ok, remote) >>
    /\ IF ok
       THEN /\ s' = remote
            /\ tfstate' = RefreshedModel(tfstate, remote)
            /\ diags' = << >>
            /\ outcome' = "ok"
       ELSE /\ s' = Nil
            /\ diags' = << "Error Reading ClickHouse Service" >>
            /\ outcome' = "error"
            /\ UNCHANGED tfstate
    /\ pc' = "done"
    /\ UNCHANGED << remote, remotePassword >>

\* Delete; on success the framework removes the resource from the state
Delete(ok) ==
    /\ pc = "idle"
    /\ UNCHANGED rerun
    /\ ops < MaxOps
    /\ ops' = ops + 1
    /\ tfstate # Nil
    /\ op' = "Delete"
    /\ plan' = Nil
    /\ state' = tfstate
    /\ s' = Nil
    /\ password' = ""
    /\ calls' = << Call("DeleteService", tfstate.ID, ok, Nil) >>
    /\ IF ok
       THEN /\ tfstate' = Nil
            /\ remote' = Nil
            /\ remotePassword' = ""
            /\ diags' = << >>
            /\ outcome' = "ok"
       ELSE /\ diags' = << "Error Deleting ClickHouse Service" >>
            /\ outcome' = "error"
            /\ UNCHANGED << tfstate, remote, remotePassword >>
    /\ pc' = "done"

(* ------------------------------------------------------------------------ *)
(* Update                                                                   *)
(* ------------------------------------------------------------------------ *)

\* a variant that stops at the first violated attribute
ImmutableViolationsFirstOnly(p, st) ==
    IF p.CloudProvider # st.CloudProvider THEN << "cloud_provider" >>
    ELSE IF p.Region # st.Region THEN << "region" >>
    ELSE IF p.Tier # st.Tier THEN << "tier" >>
    ELSE << >>

\* Update: the attribute errors of the immutability checks, in source order
ImmutableViolations(p, st) ==
    (IF p.CloudProvider # st.CloudProvider THEN << "cloud_provider" >> ELSE << >>)
    \o (IF p.Region # st.Region THEN << "region" >> ELSE << >>)
    \o (IF p.Tier # st.Tier THEN << "tier" >> ELSE << >>)

\* func(a IpAccess) string { return fmt.Sprintf("%s:%s", a.Source, a.Description) }
IpAccessKey(a) == a.Source \o ":" \o a.Description

\* equal: two collections are equal iff they contain the same entries
equal(a, b) == Range(a) = Range(b)

\* diffArrays: the entries of new whose key no entry of old has, and the
\* entries of old whose key no entry of new has; key maps an entry to its key
diffArrays(old, new, key) ==
    LET oldKeys == { key[e] : e \in Range(old) }
        newKeys == { key[e] : e \in Range(new) }
    IN  [ add    |-> SelectSeq(new, LAMBDA e : key[e] \notin oldKeys),
          remove |-> SelectSeq(old, LAMBDA e : key[e] \notin newKeys) ]

\* Update: the access-list part of the request body
IpAccessUpdate(p, st) ==
    LET d == diffArrays(st.IpAccessList, p.IpAccessList,
                        [a \in Range(st.IpAccessList) \cup Range(p.IpAccessList)
                            |-> IpAccessKey(a)])
    IN  [Add |-> d.add, Remove |-> d.remove]

\* Update: the ServiceUpdate request body generated from plan and state
ServiceUpdate(p, st) ==
    [ Name         |-> IF p.Name # st.Name THEN p.Name ELSE "",
      IpAccessList |-> IF ~equal(p.IpAccessList, st.IpAccessList)
                       THEN IpAccessUpdate(p, st)
                       ELSE Nil ]

\* a variant that overlooks the access list
serviceChangeNameOnly(p, st) == p.Name # st.Name

serviceChange(p, st) ==
    \/ p.Name # st.Name
    \/ ~equal(p.IpAccessList, st.IpAccessList)

\* Update: the ServiceScalingUpdate request body; only IdleScaling starts out
\* with the state's value, the three numbers start out zero
ServiceScalingUpdate(p, st) ==
    [ IdleScaling        |-> IF p.IdleScaling # st.IdleScaling
                             THEN p.IdleScaling ELSE st.IdleScaling,
      MinTotalMemoryGb   |-> IF p.MinTotalMemoryGb # st.MinTotalMemoryGb
                             THEN p.MinTotalMemoryGb ELSE 0,
      MaxTotalMemoryGb   |-> IF p.MaxTotalMemoryGb # st.MaxTotalMemoryGb
                             THEN p.MaxTotalMemoryGb ELSE 0,
      IdleTimeoutMinutes |-> IF p.IdleTimeoutMinutes # st.IdleTimeoutMinutes
                             THEN p.IdleTimeoutMinutes ELSE 0 ]

scalingChange(p, st) ==
    \/ p.IdleScaling # st.IdleScaling
    \/ p.MinTotalMemoryGb # st.MinTotalMemoryGb
    \/ p.MaxTotalMemoryGb # st.MaxTotalMemoryGb
    \/ p.IdleTimeoutMinutes # st.IdleTimeoutMinutes

passwordChange(p, st) == p.Password # st.Password

\* Update, up to the immutability checks
UpdateBegin(p) ==
    /\ ops < MaxOps
    /\ ops' = ops + 1
    /\ tfstate # Nil
    /\ op' = "Update"
    /\ plan' = p
    /\ state' = tfstate
    /\ s' = Nil
    /\ password' = ""
    /\ calls' = << >>
    /\ diags' = ImmutableViolations(p, tfstate)
    /\ IF ImmutableViolations(p, tfstate) # << >>
       THEN outcome' = "error" /\ pc' = "done"
       ELSE outcome' = "running" /\ pc' = "update_service"
    /\ UNCHANGED << tfstate, remote, remotePassword >>

\* Update is called for a plan
UpdateStart(p) ==
    /\ pc = "idle"
    /\ UpdateBegin(p)
    /\ rerun' = FALSE

\* an Update that applied a call and then failed has returned, and Update
\* is called again for the same plan, with the state as it was persisted
UpdateReRun ==
    /\ pc = "done"
    /\ op = "Update"
    /\ outcome = "error"
    /\ \E i \in 1..Len(calls) : calls[i].ok
    /\ UpdateBegin(plan)
    /\ rerun' = TRUE

\* a variant that records the error and carries on
AfterUpdateCallCarryOn(ok, next) == next

\* Update: where control goes after a remote call: on an error the
\* diagnostic is added and Update returns
AfterUpdateCall(ok, next) == IF ok THEN next ELSE "done"

\* Update: the UpdateService call, when name or access list changed
UpdateCallService(ok) ==
    /\ pc = "update_service"
    /\ UNCHANGED rerun
    /\ serviceChange(plan, state) \/ ok
    /\ IF ~serviceChange(plan, state)
       THEN /\ pc' = "update_scaling"
            /\ UNCHANGED << remote, s, calls, diags, outcome >>
       ELSE /\ calls' = Append(calls,
                   Call("UpdateService", ServiceUpdate(plan, state), ok,
                        UpdateService(remote, ServiceUpdate(plan, state))))
            /\ IF ok
               THEN /\ remote' = UpdateService(remote, ServiceUpdate(plan, state))
                    /\ s' = UpdateService(remote, ServiceUpdate(plan, state))
                    /\ pc' = "update_scaling"
                    /\ UNCHANGED << diags, outcome >>
               ELSE /\ diags' = << "Error Updating ClickHouse Service" >>
                    /\ outcome' = "error"
                    /\ pc' = AfterUpdateCall(ok, "update_scaling")
                    /\ UNCHANGED << remote, s >>
    /\ UNCHANGED << tfstate, remotePassword, op, plan, state, password, ops >>

\* a variant that keeps the UpdateService response when there is one
UpdateObservedKeepFirst(prev, res) == IF prev = Nil THEN res ELSE prev

\* Update: s, err = r.client.UpdateServiceScaling(...) assigns the same
\* variable s that the UpdateService call assigned
UpdateObserved(prev, res) == res

\* Update: the UpdateServiceScaling call, when a scaling attribute changed
UpdateCallScaling(ok) ==
    /\ pc = "update_scaling"
    /\ UNCHANGED rerun
    /\ scalingChange(plan, state) \/ ok
    /\ IF ~scalingChange(plan, state)
       THEN /\ pc' = "update_password"
            /\ UNCHANGED << remote, s, calls, diags, outcome >>
       ELSE /\ calls' = Append(calls,
                   Call("UpdateServiceScaling", ServiceScalingUpdate(plan, state), ok,
                        UpdateServiceScaling(remote, ServiceScalingUpdate(plan, state))))
            /\ IF ok
               THEN /\ remote' = UpdateServiceScaling(remote,
                                                      ServiceScalingUpdate(plan, state))
                    /\ s' = UpdateObserved(s,
                              UpdateServiceScaling(remote, ServiceScalingUpdate(plan, state)))
                    /\ pc' = "update_password"
                    /\ UNCHANGED << diags, outcome >>
               ELSE /\ diags' = << "Error Updating ClickHouse Service Scaling" >>
                    /\ outcome' = "error"
                    /\ pc' = AfterUpdateCall(ok, "update_password")
                    /\ UNCHANGED << remote, s >>
    /\ UNCHANGED << tfstate, remotePassword, op, plan, state, password, ops >>

\* Update: the local password when no password call is made
\* (password := state.Password.String())
UpdateKeptPassword(st) == StringOf(st.Password)

\* a variant that keeps the requested password whatever the response holds
UpdateNewPasswordAsRequested(p, res) == ValueString(p.Password)

\* Update: the local password after a successful password call
UpdateNewPassword(p, res) ==
    IF Len(res.Password) > 0 THEN res.Password ELSE ValueString(p.Password)

\* Update: plan.ID = types.StringValue(s.Id) dereferences s, which is still
\* nil when neither UpdateService nor UpdateServiceScaling was called
UpdateFaults(p, svc) ==
    \/ svc = Nil
    \/ WriteBackFaults(p.IpAccessList, svc.IpAccessList)

\* Update: the UpdateServicePassword call when the password changed, the
\* mapping of the last state payload and resp.State.Set
UpdateFinish(ok) ==
    /\ pc = "update_password"
    /\ UNCHANGED rerun
    /\ passwordChange(plan, state) \/ ok
    /\ LET req == ServicePasswordUpdateFromPlainPassword(ValueString(plan.Password))
           pw  == IF passwordChange(plan, state)
                  THEN UpdateNewPassword(plan, PasswordResponse(req))
                  ELSE UpdateKeptPassword(state)
       IN  /\ calls' = IF passwordChange(plan, state)
                       THEN Append(calls, Call("UpdateServicePassword", req, ok,
                                               PasswordResponse(req)))
                       ELSE calls
           /\ remotePassword' = IF passwordChange(plan, state) /\ ok
                                THEN NewRemotePassword(req)
                                ELSE remotePassword
           /\ IF ~ok
              THEN /\ password' = ValueString(plan.Password)
                   /\ diags' = << "Error Updating ClickHouse Service Password" >>
                   /\ outcome' = "error"
                   /\ UNCHANGED tfstate
              ELSE IF UpdateFaults(plan, s)
              THEN /\ password' = pw
                   /\ outcome' = "panic"
                   /\ UNCHANGED << tfstate, diags >>
              ELSE /\ password' = pw
                   /\ tfstate' = ModelFromService(plan, s, pw, UnknownList)
                   /\ outcome' = "ok"
                   /\ UNCHANGED diags
    /\ pc' = "done"
    /\ UNCHANGED << remote, op, plan, state, s, ops >>

(* ------------------------------------------------------------------------ *)
(* Specification                                                            *)
(* ------------------------------------------------------------------------ *)

Init ==
    /\ tfstate = Nil
    /\ remote = Nil
    /\ remotePassword = ""
    /\ pc = "idle"
    /\ op = "none"
    /\ plan = Nil
    /\ state = Nil
    /\ s = Nil
    /\ password = ""
    /\ calls = << >>
    /\ diags = << >>
    /\ outcome = "none"
    /\ ops = 0
    /\ rerun = FALSE

\* the operation returns to the framework; its locals are gone
Return ==
    /\ pc = "done"
    /\ pc' = "idle"
    /\ op' = "none"
    /\ plan' = Nil
    /\ state' = Nil
    /\ s' = Nil
    /\ password' = ""
    /\ calls' = << >>
    /\ diags' = << >>
    /\ outcome' = "none"
    /\ rerun' = FALSE
    /\ UNCHANGED << tfstate, remote, remotePassword, ops >>

Next ==
    \/ \E p \in Plans, ok \in BOOLEAN : CreateStart(p, ok)
    \/ \E ok \in BOOLEAN : CreatePoll(ok)
    \/ \E ok \in BOOLEAN : CreateFinish(ok)
    \/ RemoteProvisioned
    \/ \E ok \in BOOLEAN : Read(ok)
    \/ \E p \in Plans : UpdateStart(p)
    \/ UpdateReRun
    \/ \E ok \in BOOLEAN : UpdateCallService(ok)
    \/ \E ok \in BOOLEAN : UpdateCallScaling(ok)
    \/ \E ok \in BOOLEAN : UpdateFinish(ok)
    \/ \E ok \in BOOLEAN : Delete(ok)
    \/ Return

Spec == Init /\ [][Next]_vars

\* the steps of Create alone. Operations do not overlap, and a Create starts
\* without a state whatever ran before it, so the course of a Create is the
\* same among the other operations as on its own.
NextCreate ==
    \/ \E p \in Plans, ok \in BOOLEAN : CreateStart(p, ok)
    \/ \E ok \in BOOLEAN : CreatePoll(ok)
    \/ \E ok \in BOOLEAN : CreateFinish(ok)
    \/ RemoteProvisioned
    \/ Return

\* Create runs in one goroutine that sleeps five seconds and polls again,
\* and goes on to the password follow-up once the loop is left: a step of
\* Create that stays possible is taken. That the control plane finishes
\* provisioning is the premise under which Create is expected to return.
FairSpec ==
    /\ Init
    /\ [][NextCreate]_vars
    /\ WF_vars(\E ok \in BOOLEAN : CreatePoll(ok))
    /\ WF_vars(\E ok \in BOOLEAN : CreateFinish(ok))
    /\ WF_vars(RemoteProvisioned)

(* ------------------------------------------------------------------------ *)
(* Properties                                                               *)
(* ------------------------------------------------------------------------ *)

Issued(name) == \E i \in 1..Len(calls) : calls[i].call = name

Times(name) == Cardinality({ i \in 1..Len(calls) : calls[i].call = name })

Failed(name) == \E i \in 1..Len(calls) : calls[i].call = name /\ ~calls[i].ok

UpdateCalls == { "UpdateService", "UpdateServiceScaling", "UpdateServicePassword" }

\* the immutable attributes in which plan and prior state differ
DifferingImmutables ==
    { a \in { "cloud_provider", "region", "tier" } :
        \/ a = "cloud_provider" /\ plan.CloudProvider # state.CloudProvider
        \/ a = "region" /\ plan.Region # state.Region
        \/ a = "tier" /\ plan.Tier # state.Tier }

\* C1: an Update whose plan differs from the prior state in cloud provider,
\* region or tier ends at once with exactly one error per differing
\* attribute, has issued no remote call and has left the caller's state as
\* it was.
C1_ImmutableChangeRejected ==
    (op = "Update" /\ DifferingImmutables # {}) =>
        /\ pc = "done"
        /\ outcome = "error"
        /\ Range(diags) = DifferingImmutables
        /\ Len(diags) = Cardinality(DifferingImmutables)
        /\ calls = << >>
        /\ tfstate = state

\* C1 happens: an Update rejected for two changed immutable attributes
C1_Witness ==
    /\ op = "Update"
    /\ pc = "done"
    /\ Cardinality(DifferingImmutables) = 2
    /\ outcome = "error"

NameDiffers == plan.Name # state.Name

\* the access-list diff (new - old, old - new) by (source, description)
AccessListAdd == Range(plan.IpAccessList) \ Range(state.IpAccessList)

AccessListRemove == Range(state.IpAccessList) \ Range(plan.IpAccessList)

AccessListDiffers == AccessListAdd # {} \/ AccessListRemove # {}

ScalingDiffers ==
    \/ plan.IdleScaling # state.IdleScaling
    \/ plan.MinTotalMemoryGb # state.MinTotalMemoryGb
    \/ plan.MaxTotalMemoryGb # state.MaxTotalMemoryGb
    \/ plan.IdleTimeoutMinutes # state.IdleTimeoutMinutes

CredentialDiffers == plan.Password # state.Password

\* how far an Update that passed the immutability checks has come
ServiceDecided == pc # "update_service"

ScalingDecided ==
    /\ pc \notin { "update_service", "update_scaling" }
    /\ ~Failed("UpdateService")

CredentialDecided ==
    /\ pc = "done"
    /\ ~Failed("UpdateService")
    /\ ~Failed("UpdateServiceScaling")

C3_ScalingCarryOver ==
    op = "Update" =>
        \A i \in 1..Len(calls) :
            calls[i].call = "UpdateServiceScaling" =>
                /\ plan.IdleScaling = state.IdleScaling =>
                       calls[i].req.IdleScaling = state.IdleScaling
                /\ plan.MinTotalMemoryGb = state.MinTotalMemoryGb =>
                       calls[i].req.MinTotalMemoryGb = state.MinTotalMemoryGb
                /\ plan.MaxTotalMemoryGb = state.MaxTotalMemoryGb =>
                       calls[i].req.MaxTotalMemoryGb = state.MaxTotalMemoryGb
                /\ plan.IdleTimeoutMinutes = state.IdleTimeoutMinutes =>
                       calls[i].req.IdleTimeoutMinutes = state.IdleTimeoutMinutes

\* C4: a Create without a password of the user's that succeeds has issued no
\* UpdateServicePassword call and stored the password that CreateService
\* generated, which is not empty.
C4_GeneratedPasswordStored ==
    (op = "Create" /\ pc = "done" /\ outcome = "ok" /\ ValueString(plan.Password) = "") =>
        /\ ~Issued("UpdateServicePassword")
        /\ tfstate.Password # Known("")
        /\ tfstate.Password = Known(GeneratedPassword)

\* the GetService calls of the operation, by position in calls
Polls == { i \in 1..Len(calls) : calls[i].call = "GetService" }

SawProvisioning(i) == calls[i].ok /\ calls[i].res.State = "provisioning"

\* C5: Create polls after CreateService succeeded and after every response
\* that says "provisioning", stops at the first response that says anything
\* else, and writes state only for a service that is not "provisioning".
C5_CreateWaitsForProvisioning ==
    op = "Create" =>
        /\ \A i \in Polls :
               /\ ~SawProvisioning(i) => \A j \in Polls : j <= i
               /\ (SawProvisioning(i) /\ i = Len(calls)) => pc = "create_poll"
               /\ (SawProvisioning(i) /\ i < Len(calls)) => (i + 1) \in Polls
        /\ pc = "create_password" =>
               (Polls # {} /\ calls[Len(calls)].call = "GetService"
                           /\ ~SawProvisioning(Len(calls)))
        /\ outcome = "ok" =>
               /\ calls[1].call = "CreateService" /\ calls[1].ok
               /\ \E i \in Polls : calls[i].ok /\ calls[i].res.State # "provisioning"
               /\ s.State # "provisioning"
               /\ tfstate # Nil

\* C5 happens: a Create that succeeded after a poll that saw "provisioning"
C5_Witness ==
    /\ op = "Create"
    /\ outcome = "ok"
    /\ \E i \in Polls : SawProvisioning(i)

\* the position in calls of the last call that returned a state payload
StatePayloads ==
    { i \in 1..Len(calls) :
        calls[i].ok /\ calls[i].call \in { "UpdateService", "UpdateServiceScaling" } }

LastOf(positions) == CHOOSE i \in positions : \A j \in positions : j <= i

\* C6: an Update that issued the UpdateServicePassword call alone, with
\* success, ends without fault and writes a state whose attributes other
\* than the password are those of the prior state; and every state an Update
\* writes is mapped from the last state payload a remote call returned.
C6_CredentialOnlyUpdateCompletes ==
    /\ ( /\ op = "Update"
         /\ pc = "done"
         /\ Len(calls) = 1
         /\ calls[1].call = "UpdateServicePassword"
         /\ calls[1].ok ) =>
           /\ outcome = "ok"
           /\ tfstate.ID = state.ID
           /\ tfstate.Name = state.Name
           /\ tfstate.CloudProvider = state.CloudProvider
           /\ tfstate.Region = state.Region
           /\ tfstate.Tier = state.Tier
           /\ tfstate.IdleScaling = state.IdleScaling
           /\ tfstate.MinTotalMemoryGb = state.MinTotalMemoryGb
           /\ tfstate.MaxTotalMemoryGb = state.MaxTotalMemoryGb
           /\ tfstate.IdleTimeoutMinutes = state.IdleTimeoutMinutes
           /\ tfstate.IpAccessList = state.IpAccessList
    /\ (op = "Update" /\ pc = "done" /\ outcome = "ok" /\ StatePayloads # {}) =>
           /\ s = calls[LastOf(StatePayloads)].res
           /\ tfstate.Name = s.Name
           /\ tfstate.IdleTimeoutMinutes = s.IdleTimeoutMinutes

\* C7: the access-list part of every UpdateService request is the pair
\* add = new - old, remove = old - new of the plan's and the prior state's
\* entries compared by (source, description); an absent part counts as two
\* empty sets.
C7_AccessListSentAsDiff ==
    op = "Update" =>
        \A i \in 1..Len(calls) :
            calls[i].call = "UpdateService" =>
                LET u      == calls[i].req.IpAccessList
                    add    == IF u = Nil THEN {} ELSE Range(u.Add)
                    remove == IF u = Nil THEN {} ELSE Range(u.Remove)
                IN  add = AccessListAdd /\ remove = AccessListRemove

\* C8: the state a successful Create writes has a non-empty id and the
\* endpoints that the last GetService poll reported.
C8_CreateStoresObservedEndpoints ==
    (op = "Create" /\ pc = "done" /\ outcome = "ok") =>
        /\ tfstate.ID # ""
        /\ tfstate.Endpoints = ListValue(calls[LastOf(Polls)].res.Endpoints)

\* C9: in an Update a failed remote call is the last call issued: Update has
\* ended with that one error, and no call, forward or compensating, follows;
\* no update call is issued twice and no other kind of call is issued.
C9_UpdateStopsAtFirstFailure ==
    op = "Update" =>
        /\ \A i \in 1..Len(calls) :
               ~calls[i].ok =>
                   /\ i = Len(calls)
                   /\ pc = "done"
                   /\ outcome = "error"
                   /\ Len(diags) = 1
        /\ \A i \in 1..Len(calls) : calls[i].call \in UpdateCalls
        /\ \A c \in UpdateCalls : Times(c) <= 1

\* C9 happens: UpdateService succeeded, UpdateServiceScaling failed, and the
\* password call that the plan also asks for was not issued
C9_Witness ==
    /\ op = "Update"
    /\ pc = "done"
    /\ Len(calls) = 2
    /\ calls[1].call = "UpdateService" /\ calls[1].ok
    /\ calls[2].call = "UpdateServiceScaling" /\ ~calls[2].ok
    /\ CredentialDiffers

\* C10: after an Update that failed once an earlier call had succeeded, the
\* caller's state records what the succeeded calls changed.
C10_FailedUpdatePersistsAppliedCalls ==
    (op = "Update" /\ pc = "done" /\ outcome = "error") =>
        \A i \in StatePayloads :
            /\ calls[i].call = "UpdateService" =>
                   /\ tfstate.Name = calls[i].res.Name
                   /\ tfstate.IpAccessList = calls[i].res.IpAccessList
            /\ calls[i].call = "UpdateServiceScaling" =>
                   /\ tfstate.IdleScaling = calls[i].res.IdleScaling
                   /\ tfstate.MinTotalMemoryGb = calls[i].res.MinTotalMemoryGb
                   /\ tfstate.MaxTotalMemoryGb = calls[i].res.MaxTotalMemoryGb
                   /\ tfstate.IdleTimeoutMinutes = calls[i].res.IdleTimeoutMinutes

\* the position in calls of the call with that name, 0 when not issued
PositionOf(name) ==
    IF Issued(name) THEN CHOOSE i \in 1..Len(calls) : calls[i].call = name ELSE 0

\* C11: within one Update the remote calls are issued in the order
\* UpdateService, UpdateServiceScaling, UpdateServicePassword, each at most
\* once; when UpdateService and UpdateServiceScaling both fired, the result
\* is mapped from the UpdateServiceScaling response, the later of the two.
C11_UpdateCallOrder ==
    op = "Update" =>
        /\ \A n \in UpdateCalls : Times(n) <= 1
        /\ \A i \in 1..Len(calls) : calls[i].call \in UpdateCalls
        /\ (Issued("UpdateService") /\ Issued("UpdateServiceScaling")) =>
               PositionOf("UpdateService") < PositionOf("UpdateServiceScaling")
        /\ (Issued("UpdateService") /\ Issued("UpdateServicePassword")) =>
               PositionOf("UpdateService") < PositionOf("UpdateServicePassword")
        /\ (Issued("UpdateServiceScaling") /\ Issued("UpdateServicePassword")) =>
               PositionOf("UpdateServiceScaling") < PositionOf("UpdateServicePassword")
        /\ ( /\ Issued("UpdateService") /\ ~Failed("UpdateService")
             /\ Issued("UpdateServiceScaling") /\ ~Failed("UpdateServiceScaling") ) =>
               /\ s = calls[PositionOf("UpdateServiceScaling")].res
               /\ outcome = "ok" =>
                      /\ tfstate.ID = s.Id
                      /\ tfstate.Name = s.Name
                      /\ tfstate.IdleScaling = s.IdleScaling
                      /\ tfstate.MinTotalMemoryGb = s.MinTotalMemoryGb
                      /\ tfstate.MaxTotalMemoryGb = s.MaxTotalMemoryGb
                      /\ tfstate.IdleTimeoutMinutes = s.IdleTimeoutMinutes

\* C11 happens: an Update that issued all three calls and succeeded, where
\* the two state responses differ
C11_Witness ==
    /\ op = "Update"
    /\ outcome = "ok"
    /\ Len(calls) = 3
    /\ calls[1].res # calls[2].res

\* C12: the UpdateServicePassword request of an Update carries the planned
\* password value (empty, asking for generation, when the plan has none);
\* when the Update succeeds after that call, the stored password is the
\* password of the response when that is non-empty and the planned one
\* otherwise.
C12_UpdateCredentialCall ==
    op = "Update" =>
        \A i \in 1..Len(calls) : calls[i].call = "UpdateServicePassword" =>
            /\ calls[i].req = [Plain |-> ValueString(plan.Password)]
            /\ ~plan.Password.known => calls[i].req.Plain = ""
            /\ outcome = "ok" =>
                   /\ tfstate.Password.known
                   /\ tfstate.Password.value =
                          IF calls[i].res.Password # ""
                          THEN calls[i].res.Password
                          ELSE plan.Password.value

\* C12 happens: an Update that asked for a generated password, got one and
\* succeeded
C12_Witness ==
    /\ op = "Update"
    /\ outcome = "ok"
    /\ Issued("UpdateServicePassword")
    /\ calls[Len(calls)].req.Plain = ""
    /\ calls[Len(calls)].res.Password = GeneratedPassword

\* an Update that pushed a planned password and succeeded
C12_WitnessPlanned ==
    /\ op = "Update"
    /\ outcome = "ok"
    /\ Issued("UpdateServicePassword")
    /\ calls[Len(calls)].req.Plain # ""
    /\ calls[Len(calls)].res.Password = ""

\* C13: in a Create whose plan has a non-empty password the CreateService
\* request has no password in it, at most one UpdateServicePassword call is
\* issued and it carries exactly the planned password, it comes directly
\* after a poll that succeeded with a status other than "provisioning", and
\* a Create that succeeds has issued it and stores the planned password.
C13_CreateWithCredential ==
    (op = "Create" /\ ValueString(plan.Password) # "") =>
        /\ calls # << >> =>
               /\ calls[1].call = "CreateService"
               /\ DOMAIN calls[1].req \cap { "Password", "Plain" } = {}
        /\ Times("UpdateServicePassword") <= 1
        /\ \A i \in 1..Len(calls) : calls[i].call = "UpdateServicePassword" =>
               /\ calls[i].req = [Plain |-> plan.Password.value]
               /\ i > 1
               /\ calls[i - 1].call = "GetService"
               /\ calls[i - 1].ok
               /\ calls[i - 1].res.State # "provisioning"
        /\ outcome = "ok" =>
               /\ Times("UpdateServicePassword") = 1
               /\ tfstate.Password = Known(plan.Password.value)

\* C13 happens: a Create with a planned password that polled through
\* "provisioning", set the password and succeeded
C13_Witness ==
    /\ op = "Create"
    /\ ValueString(plan.Password) # ""
    /\ outcome = "ok"
    /\ \E i \in Polls : SawProvisioning(i)
    /\ calls[Len(calls)].call = "UpdateServicePassword"

\* C14: after a successful Read the state equals the remote service in
\* name, cloud provider, region, tier, idle scaling, minimum and maximum
\* memory, idle timeout, access list and endpoints; after a failed Read the
\* state is the one the caller held before.
C14_ReadMirrorsRemote ==
    op = "Read" =>
        /\ outcome = "ok" =>
               /\ tfstate.Name = remote.Name
               /\ tfstate.CloudProvider = remote.Provider
               /\ tfstate.Region = remote.Region
               /\ tfstate.Tier = remote.Tier
               /\ tfstate.IdleScaling = remote.IdleScaling
               /\ tfstate.MinTotalMemoryGb = remote.MinTotalMemoryGb
               /\ tfstate.MaxTotalMemoryGb = remote.MaxTotalMemoryGb
               /\ tfstate.IdleTimeoutMinutes = remote.IdleTimeoutMinutes
               /\ tfstate.IpAccessList = remote.IpAccessList
               /\ tfstate.Endpoints = ListValue(remote.Endpoints)
        /\ outcome = "error" => tfstate = state

\* the part of C14 that Read does establish: the access list and the
\* endpoints are the remote ones, the rest and a failed Read keep the state
C14_ReadRefreshesListAndEndpoints ==
    op = "Read" =>
        /\ outcome = "ok" =>
               /\ tfstate.IpAccessList = remote.IpAccessList
               /\ tfstate.Endpoints = ListValue(remote.Endpoints)
               /\ tfstate.Name = state.Name
               /\ tfstate.IdleTimeoutMinutes = state.IdleTimeoutMinutes
        /\ outcome = "error" => tfstate = state

\* C15: in a Create a failed remote call is the last call and ends the
\* operation with an error: nothing follows a failed CreateService, no poll
\* and no UpdateServicePassword follows a failed GetService; no Create ever
\* calls DeleteService, a failed Create writes no state, and the service
\* that CreateService made stays on the remote side.
C15_CreateAbortsWithoutCleanup ==
    op = "Create" =>
        /\ \A i \in 1..Len(calls) : ~calls[i].ok =>
               /\ i = Len(calls)
               /\ pc = "done"
               /\ outcome = "error"
        /\ Failed("CreateService") =>
               ~Issued("GetService") /\ ~Issued("UpdateServicePassword")
        /\ Failed("GetService") =>
               /\ ~Issued("UpdateServicePassword")
               /\ calls[Len(calls)].call = "GetService"
        /\ \A i \in 1..Len(calls) :
               calls[i].call \in { "CreateService", "GetService", "UpdateServicePassword" }
        /\ outcome = "error" =>
               /\ tfstate = Nil
               /\ calls[1].ok => (remote # Nil /\ remote.Id = calls[1].res.Id)

\* C15 happens: a Create whose password follow-up failed, leaving a remote
\* service and no state
C15_Witness ==
    /\ op = "Create"
    /\ outcome = "error"
    /\ Failed("UpdateServicePassword")
    /\ remote # Nil
    /\ tfstate = Nil

\* a Create that ended on a failed poll after a successful one
C15_WitnessPoll ==
    /\ op = "Create"
    /\ outcome = "error"
    /\ Failed("GetService")
    /\ Len(calls) = 3

\* the polls of the call log that answered "provisioning"
ProvisioningPolls == { i \in Polls : SawProvisioning(i) }

\* C16: a Create that entered the poll loop leaves it only on a GetService
\* that failed or that answered a status other than "provisioning", however
\* many polls it made; and when the control plane finishes provisioning, the
\* Create eventually returns.
C16_PollLoopUnbounded ==
    /\ [][ (pc = "create_poll" /\ pc' # "create_poll") =>
              /\ Len(calls') = Len(calls) + 1
              /\ calls'[Len(calls')].call = "GetService"
              /\ \/ ~calls'[Len(calls')].ok
                 \/ calls'[Len(calls')].res.State # "provisioning"
              /\ calls'[Len(calls')].ok => pc' = "create_password" ]_vars
    /\ [][ (pc = "create_poll" /\ pc' = "done") => outcome' = "error" ]_vars
    /\ (op = "Create" /\ pc = "create_poll") ~> (op = "Create" /\ pc = "done")

\* C16 happens: a Create that returned after as many "provisioning" answers
\* as the model allows
C16_Witness ==
    /\ op = "Create"
    /\ pc = "done"
    /\ outcome = "ok"
    /\ Cardinality(ProvisioningPolls) = MaxPolls

\* the operation is an Update that re-ran an interrupted one, and it ended
\* with every call succeeding
ReRunCompleted ==
    /\ op = "Update"
    /\ pc = "done"
    /\ rerun
    /\ \A i \in 1..Len(calls) : calls[i].ok

\* C17: when an Update that failed after applying a call is re-run with the
\* same plan and the persisted state and every call succeeds, the remote
\* service ends up with the planned name, access list (as a set), scaling
\* attributes and password.
C17_ReRunConverges ==
    ReRunCompleted =>
        /\ remote.Name = plan.Name
        /\ Range(remote.IpAccessList) = Range(plan.IpAccessList)
        /\ remote.IdleScaling = plan.IdleScaling
        /\ remote.MinTotalMemoryGb = plan.MinTotalMemoryGb
        /\ remote.MaxTotalMemoryGb = plan.MaxTotalMemoryGb
        /\ remote.IdleTimeoutMinutes = plan.IdleTimeoutMinutes
        /\ ValueString(plan.Password) # "" =>
               remotePassword = ValueString(plan.Password)

\* the access-list entries the diff of the Update in progress compares
DiffedEntries == Range(state.IpAccessList) \cup Range(plan.IpAccessList)

\* C18: the entries that an Update hands to the diff get the same key only
\* when they have the same source and the same description, and so every
\* planned entry that the prior list lacks is in the request's add list and
\* every prior entry that the plan lacks is in its remove list.
C18_KeyInjective ==
    (op = "Update" /\ Issued("UpdateService")) =>
        /\ \A a, b \in DiffedEntries :
               IpAccessKey(a) = IpAccessKey(b) =>
                   (a.Source = b.Source /\ a.Description = b.Description)
        /\ LET req == calls[PositionOf("UpdateService")].req
           IN  req.IpAccessList # Nil =>
                   /\ Range(plan.IpAccessList) \ Range(state.IpAccessList)
                          \subseteq Range(req.IpAccessList.Add)
                   /\ Range(state.IpAccessList) \ Range(plan.IpAccessList)
                          \subseteq Range(req.IpAccessList.Remove)

\* C19: an Update that succeeds without a password call (planned password
\* equal to the stored one) stores the very password that was stored
\* before, so that any number of such Updates leaves it as it was.
C19_KeptCredentialUnaltered ==
    ( /\ op = "Update"
      /\ pc = "done"
      /\ outcome = "ok"
      /\ plan.Password = state.Password ) =>
        /\ ~Issued("UpdateServicePassword")
        /\ tfstate.Password = state.Password

\* what does hold of such an Update: no password call, and the stored
\* password is the prior one rendered by String(), in quotation marks
C19_KeptCredentialQuoted ==
    ( /\ op = "Update"
      /\ pc = "done"
      /\ outcome = "ok"
      /\ plan.Password = state.Password ) =>
        /\ ~Issued("UpdateServicePassword")
        /\ tfstate.Password = Known("\"" \o state.Password.value \o "\"")

\* the operation in progress reached the write-back of the access list
WriteBackReached ==
    /\ op \in { "Create", "Update" }
    /\ pc = "done"
    /\ outcome \in { "ok", "panic" }
    /\ s # Nil

\* C20: when Create or Update writes the returned access list back, no
\* position beyond the planned list is addressed, the operation does not
\* fault, and the stored access list is the returned one, whether the
\* remote returned more, fewer or as many entries as the plan holds.
C20_WriteBackComplete ==
    WriteBackReached =>
        /\ Len(s.IpAccessList) <= Len(plan.IpAccessList)
        /\ outcome = "ok"
        /\ tfstate.IpAccessList = s.IpAccessList

\* the same without the fault: a write-back of fewer entries than planned
\* leaves planned entries in the stored list
C20_WriteBackNoStaleEntries ==
    (WriteBackReached /\ outcome = "ok") =>
        tfstate.IpAccessList = s.IpAccessList

\* what does hold: the write-back is complete when the remote returned as
\* many entries as the plan holds
C20_WriteBackSameLength ==
    (WriteBackReached /\ Len(s.IpAccessList) = Len(plan.IpAccessList)) =>
        /\ outcome = "ok"
        /\ tfstate.IpAccessList = s.IpAccessList

====
